---------------------------- MODULE Spec2Model ----------------------------
(***************************************************************************)
(* The real-time gateway of Laudiolin-Backend (src/src/features/gateway.ts) *)
(* as a state machine.  One step of the model is one run-to-completion     *)
(* piece of JavaScript: an event handler up to its first await, a timer    *)
(* callback, or the continuation of an await.                              *)
(***************************************************************************)
EXTENDS Integers, Sequences, FiniteSets, TLC

(* ------------------------------ bounds -------------------------------- *)
\* Number of Client objects the model has room for.
NumSessions == 3
\* Connections and inbound frames of the handshake specification.
HandshakeSessions == 2
MaxFrames == 2
\* Inbound frames of the listen-along specification, after the handshakes.
MaxListenFrames == 2
\* Connections and inbound frames of the directory specification.
SocialSessions == 2
MaxSocialFrames == 4
\* Calls of addRecentlyPlayed of the broadcast specification.
MaxRecents == 2
\* Connections, inbound frames and clock ticks of the presence specification.
\* Connections and inbound frames of the liveness specification.
LiveSessions == 2
MaxLiveFrames == 2
\* Inbound frames of the error specification, after the handshakes.
MaxErrorFrames == 3
PresenceSessions == 1
\* Inbound frames of the sync specification, after the handshakes.
MaxSyncFrames == 2
\* Inbound frames of the debounce specification, after the handshakes.
MaxDebounceFrames == 2
\* The connections that close in the sync specification.
SyncClosers == 1
MaxPresenceFrames == 3
MaxTicks == 6

(* --------------------------- program constants ------------------------ *)
\* Date.now() - lastUpdate < 4e3
DebounceMs == 4000
\* setTimeout(..., 1000) of Client.initialized
TimerMs == 1000

Sessions == 1 .. NumSessions
\* listeningWith = null
NoClient == 0
\* userId = null
Null == "null"
\* listeningTo = null
NoTrack == "none"
BotId == "bot"
\* constants.DISCORD_TOKEN
DISCORD_TOKEN == "botTok"
\* The user records of the User Directory.
UserIds == {"ua", "ub"}
Tokens == {"tokA", "tokB", DISCORD_TOKEN, "bad"}
Tracks == {"t1"}
\* An absent entry of onlineUsers / recentUsers.
NoEntry == [userId |-> Null]

VARIABLES
    now,          \* Date.now()
    sock,         \* the WebSocket of each session: "none", "open", "closing", "closed"
    client,       \* the Client object of each session
    sent,         \* every call of Client.send, with the socket's state at the call
    clients,      \* let clients: the ids of the registered Client objects
    users,        \* export const users: user id -> array of Clients (<<>>: no entry)
    onlineUsers,  \* features/social onlineUsers: user id -> OnlineUser
    recentUsers,  \* features/social recentUsers: user id -> OfflineUser
    hasBot,       \* let hasBot
    initTask,     \* the setTimeout callback started by Client.initialized
    closeTask,    \* the position of Client.handleClose
    onlineTask,   \* a pending await of Client.updateOnlineStatus
    rx,           \* number of frames handled per session
    first,        \* the type of the first frame handled per session
    dispatched,   \* the handler invocations per session: type and isLoggedIn()
    timerAt,      \* Date.now() at the setTimeout of Client.initialized
    ignored,      \* the tokens of the handshake frames handled after the first
    recentsTask,  \* the position of a call of Client.addRecentlyPlayed
    broadcastLog, \* the calls of broadcast: user id and users[userId] at the call
    presenceTask, \* the calls of Client.updatePresence that await getUser()
    published     \* the calls of features/discord updatePresence per session

vars == <<now, sock, client, sent, clients, users, onlineUsers, recentUsers,
          hasBot, initTask, closeTask, onlineTask, rx, first, dispatched,
          timerAt, ignored, recentsTask, broadcastLog, presenceTask, published>>

\* The state of addRecentlyPlayed and broadcast.
recents == <<recentsTask, broadcastLog>>

(* ------------------------- the User Directory ------------------------- *)
\* database.getUserByToken: the user record of a token, or null.
getUserByToken(token) ==
    CASE token = "tokA" -> "ua"
      [] token = "tokB" -> "ub"
      [] OTHER -> Null

\* database.getUser: the user record of a user id, or null.
getUser(userId) == IF userId \in UserIds THEN userId ELSE Null

\* user.presenceToken of a user record.
presenceToken(userId) == userId = "ua"

(* ------------------------------ the heap ------------------------------ *)
\* The mutable objects the methods of Client read and write, as one value:
\* the methods below are functions from heap to heap.
Heap ==
    [client |-> client, sent |-> sent, sock |-> sock, clients |-> clients,
     users |-> users, onlineUsers |-> onlineUsers, recentUsers |-> recentUsers,
     hasBot |-> hasBot]

Store(g) ==
    /\ client' = g.client
    /\ sent' = g.sent
    /\ sock' = g.sock
    /\ clients' = g.clients
    /\ users' = g.users
    /\ onlineUsers' = g.onlineUsers
    /\ recentUsers' = g.recentUsers
    /\ hasBot' = g.hasBot

\* The state holds heap g: for initial states.
Holds(g) ==
    /\ client = g.client
    /\ sent = g.sent
    /\ sock = g.sock
    /\ clients = g.clients
    /\ users = g.users
    /\ onlineUsers = g.onlineUsers
    /\ recentUsers = g.recentUsers
    /\ hasBot = g.hasBot

\* new Client(ws): the field initialisers.
NewClient ==
    [hasInitialized |-> FALSE, userId |-> Null,
     listeningTo |-> NoTrack, paused |-> TRUE, progress |-> 0,
     socialStatus |-> "Nobody", presenceMode |-> "None",
     listeningAlong |-> {}, listeningWith |-> NoClient,
     lastUpdate |-> 0]

(* --------------------------- websocket utilities ---------------------- *)
\* Client.send: socket.send(JSON.stringify(data)).  The entry keeps the state
\* of the socket at the call: ws delivers only while the socket is open.
send(g, s, data) ==
    [g EXCEPT !.sent[s] = Append(@, [frame |-> data, sock |-> g.sock[s]])]

\* Client.disconnect: socket.close() starts the closing handshake.
disconnect(g, s) ==
    [g EXCEPT !.sock[s] = IF @ = "open" THEN "closing" ELSE @]

\* Client.isLoggedIn
isLoggedIn(g, s) == g.client[s].userId # Null

\* The server -> client frames (app/constants and app/types).
GATEWAY_INIT == [type |-> "init"]
GATEWAY_PING == [type |-> "ping"]
INVALID_JSON == [type |-> "error", code |-> "invalid-json"]
GATEWAY_NOT_INITIALIZED == [type |-> "error", code |-> "not-initialized"]
GATEWAY_INVALID_TOKEN == [type |-> "error", code |-> "invalid-token"]
GATEWAY_UNKNOWN_MESSAGE == [type |-> "error", code |-> "unknown-message"]
SUCCESS_FETCH == [type |-> "success", data |-> "fetch"]
NullSync == [type |-> "sync", track |-> NoTrack, progress |-> -1, paused |-> TRUE]

\* Client.ping
ping(g, s) == send(g, s, GATEWAY_PING)

(* --------------------------- social utilities ------------------------- *)
\* Client.syncWith
syncWith(g, s, seek) ==
    LET host == g.client[s].listeningWith IN
    IF host = NoClient THEN g
    ELSE send(g, s, [type |-> "sync",
                     track |-> g.client[host].listeningTo,
                     progress |-> g.client[host].progress,
                     paused |-> g.client[host].paused,
                     seek |-> seek])

\* A listenAlong that records the edge and pushes no sync frame.
listenAlong_noSync(g, s, host) ==
    LET g1 == [g EXCEPT !.client[host].listeningAlong = @ \cup {s}]
    IN [g1 EXCEPT !.client[s].listeningWith = host]

\* Client.listenAlong
listenAlong(g, s, host) ==
    LET g1 == [g EXCEPT !.client[host].listeningAlong = @ \cup {s}]
        g2 == [g1 EXCEPT !.client[s].listeningWith = host]
    IN syncWith(g2, s, TRUE)

\* stopListeningAlong that drops the edge from the host's set but keeps the
\* follower's reference to the host.
stopListeningAlong_keepsWith(g, s, host) ==
    LET with == g.client[s].listeningWith IN
    IF with = NoClient THEN g
    ELSE LET g1 == [g EXCEPT !.client[with].listeningAlong = @ \ {s}]
         IN IF host THEN send(g1, s, NullSync) ELSE g1

\* A stopListeningAlong that tells the follower that the host left before it
\* looks whether the follower has a host.
stopListeningAlong_notifies(g, s, host) ==
    LET with == g.client[s].listeningWith IN
    IF with = NoClient THEN (IF host THEN send(g, s, NullSync) ELSE g)
    ELSE LET g1 == [g EXCEPT !.client[with].listeningAlong = @ \ {s}]
             g2 == [g1 EXCEPT !.client[s].listeningWith = NoClient]
         IN IF host THEN send(g2, s, NullSync) ELSE g2

\* Client.stopListeningAlong
stopListeningAlong(g, s, host) ==
    LET with == g.client[s].listeningWith IN
    IF with = NoClient THEN g
    ELSE LET g1 == [g EXCEPT !.client[with].listeningAlong = @ \ {s}]
             g2 == [g1 EXCEPT !.client[s].listeningWith = NoClient]
         IN IF host THEN send(g2, s, NullSync) ELSE g2

\* Array.prototype.forEach over a snapshot of the elements, in any order: the
\* iterations of the callers below touch disjoint fields, so the order of the
\* elements does not change the result.
RECURSIVE ForEach(_, _, _)
ForEach(g, elems, seek) ==
    IF elems = {} THEN g
    ELSE LET e == CHOOSE x \in elems : TRUE
         IN ForEach(syncWith(g, e, seek), elems \ {e}, seek)

\* Client.updateListeners
updateListeners(g, s) ==
    LET listeners == g.client[s].listeningAlong IN
    IF Cardinality(listeners) < 1 THEN g ELSE ForEach(g, listeners, TRUE)


(* ------------------------ Online/Recent Directory --------------------- *)
\* The keys onlineUsers is indexed with: this.getUserId() may be null or "bot".
OnlineKeys == UserIds \cup {Null, BotId}

Present(entry) == entry.userId # Null

\* Client.asOnlineUser, after the user record is known.
asOnlineUser(g, s, user) ==
    IF user = Null THEN NoEntry
    ELSE [userId |-> user,
          socialStatus |-> g.client[s].socialStatus,
          progress |-> g.client[s].progress,
          listeningTo |-> g.client[s].listeningTo,
          \* the identity of the object: the session whose call built it
          madeBy |-> s]

\* Client.asOfflineUser, after the user record is known.
asOfflineUser(g, s, user) ==
    IF user = Null THEN NoEntry
    ELSE [userId |-> user,
          socialStatus |-> g.client[s].socialStatus,
          lastSeen |-> now,
          lastListeningTo |-> g.client[s].listeningTo,
          \* the identity of the object: the session whose call built it
          madeBy |-> s]

\* Client.updateOnlineStatus, from "Update the online status" on: the entry
\* is written in place.
updateOnline(g, s, key) ==
    IF ~Present(g.onlineUsers[key]) THEN g
    ELSE [g EXCEPT !.onlineUsers[key].listeningTo = g.client[s].listeningTo,
                   !.onlineUsers[key].progress = g.client[s].progress]

\* A debounce that still skips a call made exactly 4000 ms after the last.
presenceDue_late(g, s) == now - g.client[s].lastUpdate > DebounceMs

\* Client.updatePresence up to its first await: the debounce.
presenceDue(g, s) == ~(now - g.client[s].lastUpdate < DebounceMs)

updatePresence(g, s) ==
    IF presenceDue(g, s) THEN [g EXCEPT !.client[s].lastUpdate = now] ELSE g

\* Whether a call of Client.updatePresence gets past the debounce and awaits
\* getUser().
startsPresence(g, s) == presenceDue(g, s)

\* A call of Client.updatePresence at its await of this.getUser(): userId is
\* read when the call is made.
presenceCall(g, s) == [user |-> getUser(g.client[s].userId)]

\* Client.updatePresence after getUser(): the call of features/discord
\* updatePresence it ends in ("none": it returns without one).
presenceKind(g, s, user) ==
    IF user = Null THEN "none"
    ELSE IF g.client[s].presenceMode = "None"
    THEN IF presenceToken(user) THEN "clear" ELSE "none"
    ELSE IF g.client[s].listeningTo = NoTrack THEN "clear" ELSE "publish"

\* updatePresence(this.userId, null) of Client.handleClose.
clearOnClose(g, s) ==
    [at |-> now, kind |-> "clear", by |-> "handleClose", user |-> g.client[s].userId]

\* The error frames sent to a session so far.
errors(g, s) ==
    {g.sent[s][i].frame.code :
        i \in {j \in 1 .. Len(g.sent[s]) : g.sent[s][j].frame.type = "error"}}

(* ------------------------------ User Index ---------------------------- *)
\* users[user.userId].push(this), creating the array when there is none.
register(g, s, user) == [g EXCEPT !.users[user] = Append(@, s)]

\* Array.prototype.indexOf, 1-based; 0 when absent (JavaScript's -1).
indexOf(arr, s) ==
    IF \E i \in 1 .. Len(arr) : arr[i] = s
    THEN CHOOSE i \in 1 .. Len(arr) :
            arr[i] = s /\ \A j \in 1 .. (i - 1) : arr[j] # s
    ELSE 0

\* arr.splice(arr.indexOf(this), 1): index -1 removes the last element.
splice(arr, s) ==
    LET i == IF indexOf(arr, s) = 0 THEN Len(arr) ELSE indexOf(arr, s)
    IN SubSeq(arr, 1, i - 1) \o SubSeq(arr, i + 1, Len(arr))

\* "Remove the user from the 'users' collection" of Client.handleClose.
unregister(g, s, user) ==
    IF Len(g.users[user]) < 2
    THEN [g EXCEPT !.users[user] = <<>>]
    ELSE [g EXCEPT !.users[user] = splice(@, s)]

\* The end of Client.handleClose: from "Remove the user from online users".
finishClose(g, s, user) ==
    unregister([g EXCEPT !.onlineUsers[user] = NoEntry], s, user)


(* ------------------------------ inbound frames ------------------------ *)
\* Frames a client may send.  json = FALSE is data that JSON.parse rejects.
InitializeFrames ==
    {[json |-> TRUE, type |-> "initialize", token |-> t,
      broadcast |-> Null, presence |-> Null] : t \in Tokens}
ListenFrames ==
    {[json |-> TRUE, type |-> "listen", with |-> u] : u \in UserIds \cup {Null}}
PlayerFrames ==
    {[json |-> TRUE, type |-> "player", track |-> t, paused |-> FALSE, progress |-> 1] :
        t \in Tracks}
    \cup {[json |-> TRUE, type |-> "player", track |-> NoTrack, paused |-> TRUE, progress |-> 0]}
OtherFrames ==
    {[json |-> TRUE, type |-> "latency"], [json |-> TRUE, type |-> "bogus"],
     [json |-> FALSE, type |-> "raw"]}

\* const handlers: the types with a registered handler.
handlers == {"latency", "seek", "volume", "listen", "player", "load-users", "user-update"}

\* isJson of app/utils.
isJson(data) == data.json

Range(arr) == {arr[i] : i \in 1 .. Len(arr)}

\* getUserById
getUserById(g, userId) == IF userId \in UserIds THEN g.users[userId] ELSE <<>>

\* for (const client of clients) client.send(payload)
RECURSIVE sendEach(_, _, _)
sendEach(g, targets, payload) ==
    IF targets = <<>> THEN g
    ELSE sendEach(send(g, Head(targets), payload), Tail(targets), payload)

\* const clients = users[userId]
usersOf(g, userId) == IF userId \in UserIds THEN g.users[userId] ELSE <<>>

RECURSIVE sendAll(_, _, _)
sendAll(g, targets, payload) ==
    IF targets = {} THEN g
    ELSE LET e == CHOOSE x \in targets : TRUE
         IN sendAll(send(g, e, payload), targets \ {e}, payload)

\* A broadcast that falls back to every registered client when the user has
\* no entry.
broadcast_fallsBack(g, userId, payload) ==
    IF usersOf(g, userId) = <<>> THEN sendAll(g, g.clients, payload)
    ELSE sendEach(g, usersOf(g, userId), payload)

\* broadcast
broadcast(g, userId, payload) ==
    IF usersOf(g, userId) = <<>> THEN g
    ELSE sendEach(g, usersOf(g, userId), payload)

\* The recents frame of Client.addRecentlyPlayed.
RecentsFrame == [type |-> "recents"]

\* The sessions a listen frame may name as host: the sessions the User Index
\* holds for the target user.
Picks(data) ==
    IF data.json /\ data.type = "listen" /\ Range(getUserById(Heap, data.with)) # {}
    THEN Range(getUserById(Heap, data.with))
    ELSE {NoClient}

(* ------------------------------ the handlers -------------------------- *)
\* messages/listen: stop listening along, or listen along with a session of
\* the target user.
listenHandler(g, s, data, pick) ==
    IF data.with = Null THEN stopListeningAlong(g, s, FALSE)
    ELSE IF pick = NoClient THEN g
    ELSE listenAlong(g, s, pick)

\* messages/player up to its first await: take over the playback state, then
\* sync the listeners and debounce the presence.
playerHandler(g, s, data) ==
    LET g1 == [g EXCEPT !.client[s].listeningTo = data.track,
                        !.client[s].paused = data.paused,
                        !.client[s].progress = data.progress]
    IN updatePresence(updateListeners(g1, s), s)

\* handler.default(this, json)
runHandler(g, s, data, pick) ==
    CASE data.type = "listen" -> listenHandler(g, s, data, pick)
      [] data.type = "player" -> updateOnline(playerHandler(g, s, data), s, g.client[s].userId)
      [] OTHER -> g

\* Whether the handler leaves an await of updateOnlineStatus behind: no
\* OnlineUser under this.getUserId().  The key is evaluated before the await.
startsOnlineTask(g, s, data) ==
    data.type = "player" /\ ~Present(g.onlineUsers[g.client[s].userId])

(* -------------------------------- Init -------------------------------- *)
NoTask == [pc |-> "none", token |-> Null, broadcast |-> Null, presence |-> Null]

NoRecents == [pc |-> "none", user |-> Null]

\* No timer, no ignored handshake frame, no call of addRecentlyPlayed, of
\* broadcast, of updatePresence or of the Presence Publisher yet.
Idle ==
    /\ timerAt = [s \in Sessions |-> 0]
    /\ ignored = [s \in Sessions |-> <<>>]
    /\ recentsTask = [s \in Sessions |-> NoRecents]
    /\ broadcastLog = <<>>
    /\ presenceTask = [s \in Sessions |-> <<>>]
    /\ published = [s \in Sessions |-> <<>>]

Init ==
    /\ now = 0
    /\ sock = [s \in Sessions |-> "none"]
    /\ client = [s \in Sessions |-> NewClient]
    /\ sent = [s \in Sessions |-> <<>>]
    /\ clients = {}
    /\ users = [u \in UserIds |-> <<>>]
    /\ onlineUsers = [k \in OnlineKeys |-> NoEntry]
    /\ recentUsers = [u \in UserIds |-> NoEntry]
    /\ hasBot = FALSE
    /\ initTask = [s \in Sessions |-> NoTask]
    /\ closeTask = [s \in Sessions |-> "none"]
    /\ onlineTask = [s \in Sessions |-> "none"]
    /\ rx = [s \in Sessions |-> 0]
    /\ first = [s \in Sessions |-> "none"]
    /\ dispatched = [s \in Sessions |-> <<>>]
    /\ Idle

RECURSIVE Sum(_, _)
Sum(f, S) == IF S = {} THEN 0 ELSE LET x == CHOOSE y \in S : TRUE IN f[x] + Sum(f, S \ {x})

\* The await of asOnlineUser(user) in the handshake's callback is an await of
\* a settled promise: it resumes in the same drain of the microtask queue.
\* Every other step starts from a timer, a socket event or the completion of
\* a call of the User Directory or the Presence Publisher, none of which runs
\* until the drain has ended.
NoMicrotask == \A s \in Sessions : initTask[s].pc # "online"

(* ------------------------------- actions ------------------------------ *)
\* A constructor that registers the Client and sends no init frame.
connect_noInit(g, s) ==
    [g EXCEPT !.sock[s] = "open", !.clients = @ \cup {s},
              !.client[s] = [NewClient EXCEPT !.lastUpdate = now]]

\* handleConnection and the constructor of Client.
connect(g, s) ==
    send([g EXCEPT !.sock[s] = "open", !.clients = @ \cup {s},
                   !.client[s] = [NewClient EXCEPT !.lastUpdate = now]],
         s, GATEWAY_INIT)

\* A connection is accepted.  Sessions are numbered in the order they connect.
Connect(s) ==
    /\ NoMicrotask
    /\ sock[s] = "none"
    /\ \A t \in Sessions : t < s => sock[t] # "none"
    /\ Store(connect(Heap, s))
    /\ UNCHANGED <<now, initTask, closeTask, onlineTask, rx, first, dispatched>>
    /\ UNCHANGED <<timerAt, ignored, recents, presenceTask, published>>

\* A handshake that pings the client and forgets to set the flag.
startHandshake_noFlag(g, s) == ping(g, s)

\* Client.initialized, from "Set the initialized flag" to the setTimeout.
startHandshake(g, s) == ping([g EXCEPT !.client[s].hasInitialized = TRUE], s)

\* The branch of Client.initialized that the frame and hasBot select.
handshakeTask(g, data) ==
    [pc |-> IF ~g.hasBot /\ data.token = DISCORD_TOKEN THEN "bot" ELSE "user",
     token |-> data.token, broadcast |-> data.broadcast, presence |-> data.presence]

\* An error path that sends the error frame and leaves the connection open.
reject_staysOpen(g, s, error) == send(g, s, error)

\* The error paths of Client.handleMessage: one error frame, then disconnect.
reject(g, s, error) == disconnect(send(g, s, error), s)

\* Client.handleMessage, with Client.initialized.
HandleMessage(s, data, pick, budget) ==
    /\ NoMicrotask
    /\ sock[s] \in {"open", "closing"}
    /\ Sum(rx, Sessions) < budget
    /\ rx' = [rx EXCEPT ![s] = @ + 1]
    /\ first' = [first EXCEPT ![s] = IF rx[s] = 0 THEN data.type ELSE @]
    /\ UNCHANGED <<now, closeTask, recents, published>>
    /\ IF ~isJson(data)
       THEN /\ Store(reject(Heap, s, INVALID_JSON))
            /\ UNCHANGED <<initTask, onlineTask, dispatched, timerAt, ignored, presenceTask>>
       ELSE IF ~client[s].hasInitialized /\ data.type # "initialize"
       THEN /\ Store(reject(Heap, s, GATEWAY_NOT_INITIALIZED))
            /\ UNCHANGED <<initTask, onlineTask, dispatched, timerAt, ignored, presenceTask>>
       ELSE IF ~client[s].hasInitialized
       THEN /\ Store(startHandshake(Heap, s))
            /\ initTask' = [initTask EXCEPT ![s] = handshakeTask(Heap, data)]
            /\ timerAt' = [timerAt EXCEPT ![s] = now]
            /\ UNCHANGED <<onlineTask, dispatched, ignored, presenceTask>>
       ELSE IF data.type = "initialize"
       THEN /\ Store(Heap)
            /\ ignored' = [ignored EXCEPT ![s] = Append(@, data.token)]
            /\ UNCHANGED <<initTask, onlineTask, dispatched, timerAt, presenceTask>>
       ELSE IF data.type \in handlers
       THEN /\ Store(runHandler(Heap, s, data, pick))
            /\ dispatched' = [dispatched EXCEPT ![s] =
                    Append(@, [type |-> data.type, loggedIn |-> isLoggedIn(Heap, s),
                               after |-> errors(Heap, s)])]
            /\ onlineTask' = [onlineTask EXCEPT ![s] =
                    IF startsOnlineTask(Heap, s, data) THEN client[s].userId ELSE @]
            /\ presenceTask' = [presenceTask EXCEPT ![s] =
                    IF data.type = "player" /\ startsPresence(Heap, s)
                    THEN Append(@, presenceCall(Heap, s)) ELSE @]
            /\ UNCHANGED <<initTask, timerAt, ignored>>
       ELSE /\ Store(reject(Heap, s, GATEWAY_UNKNOWN_MESSAGE))
            /\ UNCHANGED <<initTask, onlineTask, dispatched, timerAt, ignored, presenceTask>>


SetTask(s, pc) == initTask' = [initTask EXCEPT ![s].pc = pc]

\* The body of the bot branch's setTimeout callback.
claimBot(g, s) ==
    send([g EXCEPT !.client[s].userId = BotId, !.hasBot = TRUE], s, SUCCESS_FETCH)

\* The bot branch's timer fires.
BotTimer(s) ==
    /\ NoMicrotask
    /\ initTask[s].pc = "bot"
    /\ Store(claimBot(Heap, s))
    /\ SetTask(s, "done")
    /\ UNCHANGED <<now, closeTask, onlineTask, rx, first, dispatched>>
    /\ UNCHANGED <<timerAt, ignored, recents, presenceTask, published>>

\* A sign-in that leaves the RecentUser entry of the user in place.
signIn_keepsRecent(g, s, user, task) ==
    LET g1 == register([g EXCEPT !.client[s].userId = user], s, user)
    IN [g1 EXCEPT
          !.client[s].socialStatus =
              IF task.broadcast = Null THEN "Everyone" ELSE task.broadcast,
          !.client[s].presenceMode =
              IF task.presence = Null THEN "None" ELSE task.presence]

\* The user branch's callback from "Set the user" to the await of
\* asOnlineUser(user).
signIn(g, s, user, task) ==
    LET g1 == register([g EXCEPT !.client[s].userId = user], s, user)
        g2 == [g1 EXCEPT
                 !.client[s].socialStatus =
                     IF task.broadcast = Null THEN "Everyone" ELSE task.broadcast,
                 !.client[s].presenceMode =
                     IF task.presence = Null THEN "None" ELSE task.presence]
    IN [g2 EXCEPT !.recentUsers[user] = NoEntry]

\* The user branch's timer has fired and database.getUserByToken has answered.
ResolveToken(s) ==
    /\ NoMicrotask
    /\ initTask[s].pc = "user"
    /\ LET user == getUserByToken(initTask[s].token) IN
       IF user # Null
       THEN /\ Store(signIn(Heap, s, user, initTask[s]))
            /\ SetTask(s, "online")
       ELSE /\ Store(reject(Heap, s, GATEWAY_INVALID_TOKEN))
            /\ SetTask(s, "done")
    /\ UNCHANGED <<now, closeTask, onlineTask, rx, first, dispatched>>
    /\ UNCHANGED <<timerAt, ignored, recents, presenceTask, published>>

\* The user branch's callback from "online && (onlineUsers[...] = online)" on.
goOnline(g, s, user) ==
    LET online == asOnlineUser(g, s, user)
        g1 == IF Present(online) THEN [g EXCEPT !.onlineUsers[user] = online] ELSE g
    IN IF presenceToken(user) THEN updatePresence(g1, s) ELSE g1

\* The await of asOnlineUser(user) resumes.
InitOnline(s) ==
    /\ initTask[s].pc = "online"
    /\ Store(goOnline(Heap, s, client[s].userId))
    /\ SetTask(s, "done")
    /\ UNCHANGED <<now, closeTask, onlineTask, rx, first, dispatched>>
    /\ presenceTask' = [presenceTask EXCEPT ![s] =
            IF presenceToken(client[s].userId) /\ startsPresence(Heap, s)
            THEN Append(@, presenceCall(Heap, s)) ELSE @]
    /\ UNCHANGED <<timerAt, ignored, recents, published>>

\* The await in Client.updateOnlineStatus resumes: asOnlineUser() has fetched
\* the user of this.userId, and the entry is stored under the key read before
\* the await.
resumeOnline(g, s, key) ==
    LET online == asOnlineUser(g, s, getUser(g.client[s].userId))
    IN updateOnline([g EXCEPT !.onlineUsers[key] = online], s, key)

OnlineStatusResume(s) ==
    /\ NoMicrotask
    /\ onlineTask[s] # "none"
    /\ Store(resumeOnline(Heap, s, onlineTask[s]))
    /\ onlineTask' = [onlineTask EXCEPT ![s] = "none"]
    /\ UNCHANGED <<now, initTask, closeTask, rx, first, dispatched>>
    /\ UNCHANGED <<timerAt, ignored, recents, presenceTask, published>>

\* Client.handleClose up to the await of updatePresence(this.userId, null).
RECURSIVE stopAll(_, _)
stopAll(g, listeners) ==
    IF listeners = {} THEN g
    ELSE LET e == CHOOSE x \in listeners : TRUE
         IN stopAll(stopListeningAlong(g, e, TRUE), listeners \ {e})

teardown(g, s) ==
    LET g1 == IF g.client[s].listeningWith # NoClient
              THEN stopListeningAlong(g, s, FALSE) ELSE g
    IN stopAll(g1, g1.client[s].listeningAlong)

\* The socket's close event.
Close(s) ==
    /\ NoMicrotask
    /\ sock[s] \in {"open", "closing"}
    /\ Store(teardown([Heap EXCEPT !.sock[s] = "closed"], s))
    /\ closeTask' = [closeTask EXCEPT ![s] = "presence"]
    /\ UNCHANGED <<now, initTask, onlineTask, rx, first, dispatched>>
    /\ published' = [published EXCEPT ![s] = Append(@, clearOnClose(Heap, s))]
    /\ UNCHANGED <<timerAt, ignored, recents, presenceTask>>

\* Whether Client.handleClose awaits asOfflineUser().
needsRecent(g, s, user) ==
    ~Present(g.recentUsers[user]) /\ g.client[s].listeningTo # NoTrack

\* Whether Client.handleClose enters "if (this.userId && users[this.userId])".
isRegistered(g, s) ==
    g.client[s].userId \in UserIds /\ g.users[g.client[s].userId] # <<>>

\* The await of updatePresence(this.userId, null) resumes.
CloseResume(s) ==
    /\ NoMicrotask
    /\ closeTask[s] = "presence"
    /\ LET g1 == [Heap EXCEPT !.clients = @ \ {s}]
           user == client[s].userId
       IN IF ~isRegistered(g1, s)
          THEN Store(g1) /\ closeTask' = [closeTask EXCEPT ![s] = "done"]
          ELSE IF needsRecent(g1, s, user)
          THEN Store(g1) /\ closeTask' = [closeTask EXCEPT ![s] = "offline"]
          ELSE Store(finishClose(g1, s, user))
               /\ closeTask' = [closeTask EXCEPT ![s] = "done"]
    /\ UNCHANGED <<now, initTask, onlineTask, rx, first, dispatched>>
    /\ UNCHANGED <<timerAt, ignored, recents, presenceTask, published>>

\* The body of "Add the user to a list of recent users" after its await.
addRecent(g, s, user) ==
    LET offlineUser == asOfflineUser(g, s, getUser(user))
    IN IF Present(offlineUser) THEN [g EXCEPT !.recentUsers[user] = offlineUser] ELSE g

\* The await of asOfflineUser() resumes.
RecentResume(s) ==
    /\ NoMicrotask
    /\ closeTask[s] = "offline"
    /\ LET user == client[s].userId IN
       IF users[user] = <<>>
       THEN \* users[this.userId].length throws: the rest is skipped
            Store([addRecent(Heap, s, user) EXCEPT !.onlineUsers[user] = NoEntry])
       ELSE Store(finishClose(addRecent(Heap, s, user), s, user))
    /\ closeTask' = [closeTask EXCEPT ![s] = "done"]
    /\ UNCHANGED <<now, initTask, onlineTask, rx, first, dispatched>>
    /\ UNCHANGED <<timerAt, ignored, recents, presenceTask, published>>

\* The calls of Client.addRecentlyPlayed that have not yet thrown.
RecentsCalls ==
    Len(broadcastLog) + Cardinality({s \in Sessions : recentsTask[s].pc \in {"user", "save"}})

\* A handler of the session calls Client.addRecentlyPlayed(track): up to the
\* await of this.getUser(), which reads userId at the call.
AddRecentlyPlayed(s) ==
    /\ NoMicrotask
    /\ sock[s] \in {"open", "closing"}
    /\ client[s].hasInitialized
    /\ recentsTask[s].pc = "none"
    /\ RecentsCalls < MaxRecents
    /\ recentsTask' = [recentsTask EXCEPT ![s] =
            [pc |-> "user", user |-> getUser(client[s].userId)]]
    /\ UNCHANGED <<now, sock, client, sent, clients, users, onlineUsers, recentUsers,
                   hasBot, initTask, closeTask, onlineTask, rx, first, dispatched,
                   timerAt, ignored, broadcastLog, presenceTask, published>>

\* The await of getUser() resumes: user.recentlyPlayed throws when there is
\* no user record, otherwise the list is rebuilt and database.updateUser is
\* awaited.
RecentsUser(s) ==
    /\ NoMicrotask
    /\ recentsTask[s].pc = "user"
    /\ recentsTask' = [recentsTask EXCEPT ![s].pc =
            IF recentsTask[s].user = Null THEN "failed" ELSE "save"]
    /\ UNCHANGED <<now, sock, client, sent, clients, users, onlineUsers, recentUsers,
                   hasBot, initTask, closeTask, onlineTask, rx, first, dispatched,
                   timerAt, ignored, broadcastLog, presenceTask, published>>

\* The call of broadcast as the log keeps it: the caller, the user id, the
\* array found under it and the targets whose close event has fired.
broadcastEntry(g, s, userId) ==
    [by |-> s, userId |-> userId, to |-> usersOf(g, userId),
     closed |-> {x \in Range(usersOf(g, userId)) : g.sock[x] = "closed"}]

\* The await of database.updateUser resumes: broadcast(this.userId, recents).
RecentsSaved(s) ==
    /\ NoMicrotask
    /\ recentsTask[s].pc = "save"
    /\ Store(broadcast(Heap, client[s].userId, RecentsFrame))
    /\ broadcastLog' = Append(broadcastLog, broadcastEntry(Heap, s, client[s].userId))
    /\ recentsTask' = [recentsTask EXCEPT ![s] = NoRecents]
    /\ UNCHANGED <<now, initTask, closeTask, onlineTask, rx, first, dispatched,
                   timerAt, ignored, presenceTask, published>>

\* All state but the clock.
frozen ==
    <<sock, client, sent, clients, users, onlineUsers, recentUsers, hasBot,
      initTask, closeTask, onlineTask, rx, first, dispatched, timerAt, ignored,
      recentsTask, broadcastLog, presenceTask, published>>

\* Date.now() advances, in steps of the handshake timer's delay.
TickMs == TimerMs

Tick ==
    /\ NoMicrotask
    /\ now < MaxTicks * TickMs
    /\ now' = now + TickMs
    /\ UNCHANGED frozen

\* The delay of the setTimeout of Client.initialized has passed.
TimerDue(s) == now - timerAt[s] >= TimerMs

\* The user branch's timer fires once its delay has passed, and
\* database.getUserByToken answers.
ResolveTimer(s) == TimerDue(s) /\ ResolveToken(s)

\* A call of Client.updatePresence resumes from its await of getUser() and
\* makes the call of the Presence Publisher its mode and track select.
PresenceResume(s) ==
    /\ NoMicrotask
    /\ presenceTask[s] # <<>>
    /\ LET kind == presenceKind(Heap, s, Head(presenceTask[s]).user) IN
       published' = [published EXCEPT ![s] =
            IF kind = "none" THEN @
            ELSE Append(@, [at |-> now, kind |-> kind, by |-> "updatePresence",
                            user |-> Head(presenceTask[s]).user])]
    /\ presenceTask' = [presenceTask EXCEPT ![s] = Tail(@)]
    /\ UNCHANGED <<now, sock, client, sent, clients, users, onlineUsers, recentUsers,
                   hasBot, initTask, closeTask, onlineTask, rx, first, dispatched,
                   timerAt, ignored, recents>>

\* database.getUser rejects in a call of Client.updatePresence: the call ends
\* with the rejection.
PresenceFails(s) ==
    /\ NoMicrotask
    /\ presenceTask[s] # <<>>
    /\ presenceTask' = [presenceTask EXCEPT ![s] = Tail(@)]
    /\ UNCHANGED <<now, sock, client, sent, clients, users, onlineUsers, recentUsers,
                   hasBot, initTask, closeTask, onlineTask, rx, first, dispatched,
                   timerAt, ignored, recents, published>>

\* database.getUserByToken rejects in the user branch's callback: the callback
\* ends with the rejection.
ResolveFails(s) ==
    /\ NoMicrotask
    /\ initTask[s].pc = "user"
    /\ SetTask(s, "failed")
    /\ UNCHANGED <<now, sock, client, sent, clients, users, onlineUsers, recentUsers,
                   hasBot, closeTask, onlineTask, rx, first, dispatched,
                   timerAt, ignored, recents, presenceTask, published>>

ResolveTimerFails(s) == TimerDue(s) /\ ResolveFails(s)

\* updatePresence(this.userId, null) rejects in Client.handleClose: the rest
\* of handleClose does not run.
CloseFails(s) ==
    /\ NoMicrotask
    /\ closeTask[s] = "presence"
    /\ closeTask' = [closeTask EXCEPT ![s] = "failed"]
    /\ UNCHANGED <<now, sock, client, sent, clients, users, onlineUsers, recentUsers,
                   hasBot, initTask, onlineTask, rx, first, dispatched,
                   timerAt, ignored, recents, presenceTask, published>>

\* The client closes the connection.
Hangup(s) == sock[s] = "open" /\ Close(s)

\* The closing handshake that Client.disconnect started completes.
ServerClose(s) == sock[s] = "closing" /\ Close(s)

(* --------------------------- specifications -------------------------- *)
\* Handshake and dispatch: two or three connections that present the bot
\* token, a user's token or an unknown token, send frames with and without a
\* handler before, during and after the handshake, and close at any point.
HandshakeFrames ==
    {f \in InitializeFrames : f.token \in {"tokA", DISCORD_TOKEN, "bad"}}
    \cup OtherFrames

Next ==
    \/ \E s \in 1 .. HandshakeSessions : Connect(s)
    \/ \E s \in Sessions, data \in HandshakeFrames :
          HandleMessage(s, data, NoClient, MaxFrames)
    \/ \E s \in Sessions : BotTimer(s)
    \/ \E s \in Sessions : ResolveToken(s)
    \/ \E s \in Sessions : InitOnline(s)
    \/ \E s \in Sessions : Close(s)
    \/ \E s \in Sessions : CloseResume(s)

Spec == Init /\ [][Next]_vars

\* Listen-along: all connections but the last have signed in one after the
\* other, and the last connects and signs in as the run goes, as the same user
\* as the first; they send listen frames that name either user or stop
\* listening, and close at any point.
ListenToken(s) == IF s = 2 THEN "tokB" ELSE "tokA"

Booted == 1 .. (NumSessions - 1)

ListenTask(s) ==
    [pc |-> "done", token |-> ListenToken(s), broadcast |-> Null, presence |-> Null]

\* Connection s from its accept to the end of its handshake.
boot(g, s) ==
    LET user == getUserByToken(ListenToken(s))
    IN goOnline(signIn(startHandshake(connect(g, s), s), s, user, ListenTask(s)), s, user)

\* The heap before the first connection.
EmptyHeap ==
    [client |-> [s \in Sessions |-> NewClient],
     sent |-> [s \in Sessions |-> <<>>],
     sock |-> [s \in Sessions |-> "none"],
     clients |-> {},
     users |-> [u \in UserIds |-> <<>>],
     onlineUsers |-> [k \in OnlineKeys |-> NoEntry],
     recentUsers |-> [u \in UserIds |-> NoEntry],
     hasBot |-> FALSE]

RECURSIVE bootAll(_, _)
bootAll(g, n) == IF n = 0 THEN g ELSE boot(bootAll(g, n - 1), n)

InitListen ==
    /\ now = 0
    /\ Holds(bootAll(EmptyHeap, NumSessions - 1))
    /\ initTask = [s \in Sessions |-> IF s \in Booted THEN ListenTask(s) ELSE NoTask]
    /\ closeTask = [s \in Sessions |-> "none"]
    /\ onlineTask = [s \in Sessions |-> "none"]
    /\ rx = [s \in Sessions |-> IF s \in Booted THEN 1 ELSE 0]
    /\ first = [s \in Sessions |-> IF s \in Booted THEN "initialize" ELSE "none"]
    /\ dispatched = [s \in Sessions |-> <<>>]
    /\ Idle

ListenMenu(s) ==
    ListenFrames \cup
    IF s \in Booted THEN {} ELSE {f \in InitializeFrames : f.token = ListenToken(s)}

NextListen ==
    \/ \E s \in Sessions : Connect(s)
    \/ \E s \in Sessions : \E data \in ListenMenu(s) : \E pick \in Picks(data) :
          HandleMessage(s, data, pick, NumSessions + MaxListenFrames)
    \/ \E s \in Sessions : ResolveToken(s)
    \/ \E s \in Sessions : InitOnline(s)
    \/ \E s \in Sessions : Close(s)
    \/ \E s \in Sessions : CloseResume(s)

SpecListen == InitListen /\ [][NextListen]_vars

\* The follow relation among sessions whose handshake has finished, while one
\* more session connects and signs in: the signed-in sessions are the ones
\* whose sockets close.
NextFollow ==
    \/ \E s \in Sessions : Connect(s)
    \/ \E s \in Sessions : \E data \in ListenMenu(s) : \E pick \in Picks(data) :
          HandleMessage(s, data, pick, NumSessions + MaxListenFrames)
    \/ \E s \in Sessions : ResolveToken(s)
    \/ \E s \in Sessions : InitOnline(s)
    \/ \E s \in Booted : Close(s)
    \/ \E s \in Sessions : CloseResume(s)

SpecFollow == InitListen /\ [][NextFollow]_vars


\* Directory: connections of one user, on several devices, that sign in, play
\* and stop a track, and close at any point.
SocialFrames ==
    {f \in InitializeFrames : f.token = "tokA"} \cup PlayerFrames

NextSocial ==
    \/ \E s \in 1 .. SocialSessions : Connect(s)
    \/ \E s \in Sessions, data \in SocialFrames :
          HandleMessage(s, data, NoClient, MaxSocialFrames)
    \/ \E s \in Sessions : ResolveToken(s)
    \/ \E s \in Sessions : InitOnline(s)
    \/ \E s \in Sessions : OnlineStatusResume(s)
    \/ \E s \in Sessions : Close(s)
    \/ \E s \in Sessions : CloseResume(s)
    \/ \E s \in Sessions : RecentResume(s)

SpecSocial == Init /\ [][NextSocial]_vars


\* Broadcast: every connection has signed in, the first and the third as the
\* same user; handlers update the recently-played lists and the connections
\* close at any point.
InitBroadcast ==
    /\ now = 0
    /\ Holds(bootAll(EmptyHeap, NumSessions))
    /\ initTask = [s \in Sessions |-> ListenTask(s)]
    /\ closeTask = [s \in Sessions |-> "none"]
    /\ onlineTask = [s \in Sessions |-> "none"]
    /\ rx = [s \in Sessions |-> 1]
    /\ first = [s \in Sessions |-> "initialize"]
    /\ dispatched = [s \in Sessions |-> <<>>]
    /\ Idle

NextBroadcast ==
    \/ \E s \in Sessions : AddRecentlyPlayed(s)
    \/ \E s \in Sessions : RecentsUser(s)
    \/ \E s \in Sessions : RecentsSaved(s)
    \/ \E s \in Sessions : Close(s)
    \/ \E s \in Sessions : CloseResume(s)

SpecBroadcast == InitBroadcast /\ [][NextBroadcast]_vars

\* Presence: a connection of a user with a presence token that signs in with
\* presence mode Full, plays and stops a track and closes while the clock
\* runs; the User Directory and the Presence Publisher answer or fail.
PresenceFrames ==
    {[json |-> TRUE, type |-> "initialize", token |-> "tokA",
      broadcast |-> Null, presence |-> "Full"]} \cup PlayerFrames

NextPresence ==
    \/ Tick
    \/ \E s \in 1 .. PresenceSessions : Connect(s)
    \/ \E s \in Sessions, data \in PresenceFrames :
          HandleMessage(s, data, NoClient, MaxPresenceFrames)
    \/ \E s \in Sessions : ResolveTimer(s)
    \/ \E s \in Sessions : ResolveTimerFails(s)
    \/ \E s \in Sessions : InitOnline(s)
    \/ \E s \in Sessions : OnlineStatusResume(s)
    \/ \E s \in Sessions : PresenceResume(s)
    \/ \E s \in Sessions : PresenceFails(s)
    \/ \E s \in Sessions : Close(s)
    \/ \E s \in Sessions : CloseResume(s)
    \/ \E s \in Sessions : CloseFails(s)
    \/ \E s \in Sessions : RecentResume(s)

SpecPresence == Init /\ [][NextPresence]_vars

\* Errors: connections that have signed in send frames with and without a
\* handler and frames that are not JSON, and close at any point.
NextErrors ==
    \/ \E s \in Booted, data \in OtherFrames :
          HandleMessage(s, data, NoClient, (NumSessions - 1) + MaxErrorFrames)
    \/ \E s \in Sessions : Close(s)
    \/ \E s \in Sessions : CloseResume(s)

SpecErrors == InitListen /\ [][NextErrors]_vars

\* Liveness: the first connection has signed in as user ua, played a track
\* and closed, which left a RecentUser entry; the connections after it present
\* the token of ua or an unknown token and close.  Timers fire, the User
\* Directory and the Presence Publisher answer, and a closing handshake
\* completes; when a client sends a frame or hangs up is up to the client.
PlayFrame == CHOOSE f \in PlayerFrames : f.track # NoTrack

\* Connection 1 after its handshake and a player frame.
played(g) == runHandler(boot(g, 1), 1, PlayFrame, NoClient)

\* Connection 1 after its close handling.
left(g) ==
    LET g1 == teardown([played(g) EXCEPT !.sock[1] = "closed"], 1)
        g2 == [g1 EXCEPT !.clients = @ \ {1}]
    IN finishClose(addRecent(g2, 1, "ua"), 1, "ua")

InitLive ==
    /\ now = 0
    /\ Holds(left(EmptyHeap))
    /\ initTask = [s \in Sessions |-> IF s = 1 THEN ListenTask(s) ELSE NoTask]
    /\ closeTask = [s \in Sessions |-> IF s = 1 THEN "done" ELSE "none"]
    /\ onlineTask = [s \in Sessions |-> "none"]
    /\ rx = [s \in Sessions |-> IF s = 1 THEN 2 ELSE 0]
    /\ first = [s \in Sessions |-> IF s = 1 THEN "initialize" ELSE "none"]
    /\ dispatched = [s \in Sessions |->
            IF s = 1 THEN <<[type |-> "player", loggedIn |-> TRUE, after |-> {}]>>
            ELSE <<>>]
    /\ timerAt = [s \in Sessions |-> 0]
    /\ ignored = [s \in Sessions |-> <<>>]
    /\ recentsTask = [s \in Sessions |-> NoRecents]
    /\ broadcastLog = <<>>
    /\ presenceTask = [s \in Sessions |-> <<>>]
    /\ published = [s \in Sessions |->
            IF s = 1 THEN <<clearOnClose(played(EmptyHeap), 1)>> ELSE <<>>]

LiveFrames == {f \in InitializeFrames : f.token \in {"tokA", "bad"}}

Live == (2 .. (1 + LiveSessions)) \cap Sessions

NextLive ==
    \/ \E s \in Live : Connect(s)
    \/ \E s \in Sessions, data \in LiveFrames :
          HandleMessage(s, data, NoClient, 2 + MaxLiveFrames)
    \/ \E s \in Sessions : ResolveToken(s)
    \/ \E s \in Sessions : InitOnline(s)
    \/ \E s \in Sessions : Hangup(s)
    \/ \E s \in Sessions : ServerClose(s)
    \/ \E s \in Sessions : CloseResume(s)

Fairness ==
    \A s \in Sessions :
        /\ WF_vars(ResolveToken(s))
        /\ WF_vars(InitOnline(s))
        /\ WF_vars(ServerClose(s))
        /\ WF_vars(CloseResume(s))

SpecLive == InitLive /\ [][NextLive]_vars /\ Fairness

\* Sync: every connection has signed in, the first and the third as the same
\* user, and the second has listened along with the first and then with the
\* third; they play and stop a track, send listen frames that name either
\* user or stop listening, and the first closes at any point.
ListenTo(u) == [json |-> TRUE, type |-> "listen", with |-> u]

\* Connection 2 after its two listen frames.
followed(g) ==
    runHandler(runHandler(g, 2, ListenTo("ua"), 1), 2, ListenTo("ua"), 3)

InitSync ==
    /\ now = 0
    /\ Holds(followed(bootAll(EmptyHeap, NumSessions)))
    /\ initTask = [s \in Sessions |-> ListenTask(s)]
    /\ closeTask = [s \in Sessions |-> "none"]
    /\ onlineTask = [s \in Sessions |-> "none"]
    /\ rx = [s \in Sessions |-> IF s = 2 THEN 3 ELSE 1]
    /\ first = [s \in Sessions |-> "initialize"]
    /\ dispatched = [s \in Sessions |->
            IF s = 2 THEN <<[type |-> "listen", loggedIn |-> TRUE, after |-> {}],
                            [type |-> "listen", loggedIn |-> TRUE, after |-> {}]>>
            ELSE <<>>]
    /\ Idle

SyncFrames == ListenFrames \cup PlayerFrames

SyncBudget == NumSessions + 2 + MaxSyncFrames

NextSync ==
    \/ \E s \in Sessions : \E data \in SyncFrames : \E pick \in Picks(data) :
          HandleMessage(s, data, pick, SyncBudget)
    \/ \E s \in Sessions : OnlineStatusResume(s)
    \/ \E s \in 1 .. SyncClosers : Close(s)
    \/ \E s \in Sessions : CloseResume(s)
    \/ \E s \in Sessions : RecentResume(s)

SpecSync == InitSync /\ [][NextSync]_vars

\* Debounce: all connections but the last have signed in, and the last
\* connects and signs in as the run goes, as a user with a presence token; the
\* first and the last play and stop a track while the clock runs, and the
\* User Directory answers the calls of updatePresence.
DebounceMenu(s) ==
    IF s = 1 THEN PlayerFrames
    ELSE IF s \in Booted THEN {}
    ELSE PlayerFrames \cup {f \in InitializeFrames : f.token = ListenToken(s)}

NextDebounce ==
    \/ Tick
    \/ \E s \in Sessions : Connect(s)
    \/ \E s \in Sessions : \E data \in DebounceMenu(s) :
          HandleMessage(s, data, NoClient, NumSessions + MaxDebounceFrames)
    \/ \E s \in Sessions : ResolveTimer(s)
    \/ \E s \in Sessions : InitOnline(s)
    \/ \E s \in Sessions : PresenceResume(s)

SpecDebounce == InitListen /\ [][NextDebounce]_vars

(* ------------------------------- the claims --------------------------- *)
\* A session is Active: its handshake has set userId and its socket's close
\* event has not fired.
Active(s) == client[s].userId # Null /\ sock[s] \in {"open", "closing"}

ActiveAs(u) == {s \in Sessions : Active(s) /\ client[s].userId = u}

\* No handshake callback, close handler or online-status update is between
\* two of its awaits.
Quiescent ==
    \A s \in Sessions :
        /\ initTask[s].pc \in {"none", "done"}
        /\ closeTask[s] \in {"none", "done"}
        /\ onlineTask[s] = "none"

\* C1: a frame other than the handshake is never dispatched to a handler
\* while the session is not Active (userId still null).
C1_NoDispatchBeforeActive ==
    \A s \in Sessions : \A i \in 1 .. Len(dispatched[s]) : dispatched[s][i].loggedIn

\* The frames of a session that ws has put on the wire: the calls of send made
\* while the socket was open.
Delivered(s) == SelectSeq(sent[s], LAMBDA e : e.sock = "open")

\* C2: when the first frame of a session is valid JSON of a type other than
\* "initialize", then once it is handled hasInitialized is false, and for as
\* long as no handshake frame follows on the closing socket the session has
\* been sent the init frame and exactly one error frame (not-initialized), the
\* connection is closing or closed, no handler was invoked, no handshake was
\* started, and userId is null.
C2_FirstFrameNotHandshake ==
    \A s \in Sessions :
        first[s] \notin {"none", "initialize", "raw"} =>
            /\ rx[s] = 1 => ~client[s].hasInitialized
            /\ ~client[s].hasInitialized =>
                /\ Delivered(s) = <<[frame |-> GATEWAY_INIT, sock |-> "open"],
                                    [frame |-> GATEWAY_NOT_INITIALIZED, sock |-> "open"]>>
                /\ sock[s] \in {"closing", "closed"}
                /\ dispatched[s] = <<>>
                /\ initTask[s].pc = "none"
                /\ client[s].userId = Null

\* C2's case: one session whose first frame has a handler and one whose first
\* frame has none, both rejected.
C2_Witness ==
    \E s, t \in Sessions :
        /\ rx[s] = 1 /\ first[s] = "latency" /\ sock[s] = "closed"
        /\ rx[t] = 1 /\ first[t] = "bogus" /\ sock[t] = "closing"

\* C3: whenever A.listeningWith is B, B.listeningAlong contains A.
C3_MutualInverse ==
    \A a \in Sessions :
        client[a].listeningWith # NoClient =>
            a \in client[client[a].listeningWith].listeningAlong

\* C3's case: a follower that has switched or stopped before listens with a
\* host while another session has closed.
C3_Witness ==
    \E a, b, c \in Sessions :
        /\ a # b /\ client[a].listeningWith = b /\ a \in client[b].listeningAlong
        /\ Len(dispatched[a]) >= 2
        /\ closeTask[c] = "done"

\* C4: no session is in the listeningAlong sets of two different sessions
\* (stated for the hosts other than the session itself).
C4_AtMostOneHost ==
    \A f \in Sessions :
        Cardinality({h \in Sessions \ {f} : f \in client[h].listeningAlong}) <= 1

\* C5: once a host's close handling has finished, no session has listeningWith
\* equal to the closed host.
C5_GroupTornDown ==
    \A h, f \in Sessions : closeTask[h] = "done" => client[f].listeningWith # h

\* C6: after A has closed, no other session's listeningAlong contains A and
\* A.listeningWith is null.
C6_ClosedFollowerRemoved ==
    \A a \in Sessions : \A b \in Sessions \ {a} :
        sock[a] = "closed" =>
            a \notin client[b].listeningAlong /\ client[a].listeningWith = NoClient

\* C7: outside of a running handshake or close, the User Index has an entry
\* for a user id iff some Active session has that user id, and lists only such
\* sessions.
C7_IndexIffActive ==
    Quiescent =>
        \A u \in UserIds :
            /\ (users[u] # <<>>) <=> (ActiveAs(u) # {})
            /\ Range(users[u]) \subseteq ActiveAs(u)

\* C8: outside of a running handshake or close, a user with an Active session
\* has an OnlineUser entry.
C8_OnlineWhileActive ==
    Quiescent => \A u \in UserIds : ActiveAs(u) # {} => Present(onlineUsers[u])

\* C9: no user id has a RecentUser entry while it has an Active session
\* (stated for the runs in which every handler ran on an Active session).
C9_RecentExcludesActive ==
    C1_NoDispatchBeforeActive =>
        \A u \in UserIds : Present(recentUsers[u]) => ActiveAs(u) = {}

\* C10: at most one session ever obtains the bot identity.
C10_SingleBot ==
    Cardinality({s \in Sessions : client[s].userId = BotId}) <= 1

\* The sessions that were signed in as a user when their close event fired:
\* handleClose passes this.userId to the Presence Publisher.
ClosedActive ==
    {s \in Sessions : \E i \in 1 .. Len(published[s]) :
        published[s][i].by = "handleClose" /\ published[s][i].user \in UserIds}

\* C11: from the moment the close handling of a session starts, no broadcast
\* of another session reaches it: no call of broadcast finds, in the User
\* Index, a session other than the caller that was Active when its close event
\* fired.
C11_NoBroadcastMidTeardown ==
    \A i \in 1 .. Len(broadcastLog) :
        (broadcastLog[i].closed \cap ClosedActive) \ {broadcastLog[i].by} = {}

\* C13: a call of broadcast for a user id without an entry in the User Index
\* sends no frame, changes no state and raises no error: the step that makes
\* the call leaves every object as it was and ends addRecentlyPlayed normally.
C13_BroadcastNoEntry ==
    [][\A s \in Sessions :
          (recentsTask[s].pc = "save" /\ recentsTask'[s].pc # "save"
              /\ usersOf(Heap, client[s].userId) = <<>>)
          => /\ UNCHANGED <<client, sent, sock, clients, users, onlineUsers,
                            recentUsers, hasBot>>
             /\ recentsTask'[s] = NoRecents]_vars

\* C13's case: broadcast was called for a user id without an entry while
\* another client was registered.
C13_Witness ==
    \E i \in 1 .. Len(broadcastLog) :
        /\ broadcastLog[i].to = <<>>
        /\ clients # {}

\* C12: the calls of the Presence Publisher made on behalf of one session
\* are at least 4000 ms apart.
C12_PresenceDebounced ==
    \A s \in Sessions : \A i, j \in 1 .. Len(published[s]) :
        i < j => published[s][j].at - published[s][i].at >= DebounceMs

\* C16: a failure of a User Directory or Presence Publisher call is contained.
\* When getUserByToken has failed, the sign-in is skipped and no invalid-token
\* error is sent; when the Presence Publisher has failed in the close
\* handling of a session that was Active, the registries still satisfy the
\* data model: the closed session is not in the User Index.
C16_FailureContained ==
    \A s \in Sessions :
        /\ initTask[s].pc = "failed" =>
              /\ client[s].userId = Null
              /\ "invalid-token" \notin errors(Heap, s)
        /\ (closeTask[s] = "failed" /\ s \in ClosedActive) =>
              \A u \in UserIds : s \notin Range(users[u])

\* C19: every session that closes is in the end absent from the Connection
\* Registry and from the User Index: once its close handling has run to its
\* end and no handshake callback of it is pending, it is in neither (stated
\* for the runs in which the Presence Publisher call of handleClose succeeds).
C19_ClosedRemoved ==
    \A s \in Sessions :
        (closeTask[s] = "done" /\ initTask[s].pc \in {"none", "done"})
        => /\ s \notin clients
           /\ \A u \in UserIds : s \notin Range(users[u])

\* C14: a session whose first frame is a handshake with a token that is not
\* the bot secret and that the User Directory does not know has no handler
\* invoked between the handshake frame and the close, keeps userId null, is
\* never in the User Index or the Online Directory, and once the lookup has
\* answered it has been sent exactly one invalid-token error and the
\* connection is closing or closed.
C14_InvalidToken ==
    \A s \in Sessions :
        (first[s] = "initialize" /\ initTask[s].token = "bad") =>
            /\ \A i \in 1 .. Len(dispatched[s]) : dispatched[s][i].after # {}
            /\ client[s].userId = Null
            /\ \A u \in UserIds : s \notin Range(users[u])
            /\ initTask[s].pc = "done" =>
                  /\ Len(SelectSeq(sent[s], LAMBDA e : e.frame = GATEWAY_INVALID_TOKEN)) = 1
                  /\ sock[s] \in {"closing", "closed"}

\* C15: once an initialized session has been sent the unknown-message error,
\* no frame received on its connection is dispatched to a handler.
C15_UnknownTypeTerminal ==
    \A s \in Sessions : \A i \in 1 .. Len(dispatched[s]) :
        "unknown-message" \notin dispatched[s][i].after

\* C18: once the userId of a session is set, no step changes it.
C18_UserIdSetOnce ==
    [][\A s \in Sessions :
          client[s].userId # Null => client'[s].userId = client[s].userId]_vars

\* C18's case: a session that holds the bot identity has handled a handshake
\* frame with the token of a user.
C18_Witness ==
    \E s \in Sessions :
        /\ client[s].userId = BotId
        /\ "tokA" \in Range(ignored[s])
        /\ sock[s] = "open"

\* C20: a handshake frame on a session that has already handled one sends no
\* frame, starts no resolution, changes no field of any session and no
\* registry; and no session is twice in the User Index entry of a user.
C20_RepeatedHandshakeNoOp ==
    /\ [][\A s \in Sessions :
            ignored'[s] # ignored[s] =>
                UNCHANGED <<client, sent, sock, clients, users, onlineUsers,
                            recentUsers, hasBot, initTask, timerAt>>]_vars
    /\ [](\A s \in Sessions, u \in UserIds :
            Cardinality({i \in 1 .. Len(users[u]) : users[u][i] = s}) <= 1)

\* C20's case: a session got a second handshake frame while its lookup was
\* pending, was then signed in and is once in the User Index.
C20_Witness ==
    \E s \in Sessions :
        /\ Len(ignored[s]) >= 1
        /\ initTask[s].pc = "done"
        /\ client[s].userId = "ua"
        /\ users["ua"] = <<s>>
        /\ Len(sent[s]) = 2

\* The handshake of session s has made it Active as user u.
SignedIn(s, u) ==
    /\ initTask[s].pc = "done"
    /\ client[s].userId = u
    /\ s \in Range(users[u])
    /\ ~Present(recentUsers[u])
    /\ Present(onlineUsers[u])

\* What the handshake of session s owes once the User Directory has answered:
\* a session whose token resolves and that stays connected is signed in as that
\* user, a session whose token does not resolve is closed.
Outcome(s) ==
    LET user == getUserByToken(initTask[s].token)
    IN IF user = Null THEN sock[s] = "closed"
       ELSE sock[s] # "open" \/ SignedIn(s, user)

\* C17: a session whose handshake token resolves to user u and that stays
\* connected is eventually Active as u, in the User Index under u, with no
\* RecentUser entry and with an OnlineUser entry for u; a session whose token
\* does not resolve is eventually closed; no handshake stays pending forever.
C17_HandshakeCompletes ==
    \A s \in Sessions :
        (initTask[s].pc = "user") ~> (initTask[s].pc = "done" /\ Outcome(s))

\* C17's case: a session is signed in as ua and connected after another
\* session of ua, closed while it played a track, had left a RecentUser entry,
\* and a session that presented an unknown token is closed.
C17_Witness ==
    /\ \E s, t \in Sessions :
          /\ s # t
          /\ SignedIn(s, "ua") /\ sock[s] = "open"
          /\ t \in ClosedActive /\ closeTask[t] = "done"
          /\ client[t].listeningTo # NoTrack
    /\ \E s \in Sessions :
          /\ initTask[s].token = "bad" /\ initTask[s].pc = "done"
          /\ sock[s] = "closed" /\ client[s].userId = Null

\* C21: the init frame is the first frame the server sends on a connection: a
\* connection that was accepted has been sent the init frame, on the open
\* socket, before every other frame, and a connection that was not accepted
\* has been sent nothing and has had no inbound frame handled.
C21_InitFirst ==
    \A s \in Sessions :
        IF sock[s] = "none"
        THEN sent[s] = <<>> /\ rx[s] = 0
        ELSE /\ sent[s] # <<>>
             /\ Head(sent[s]) = [frame |-> GATEWAY_INIT, sock |-> "open"]

\* C21's case: a connection has been sent the init frame, the ping of its
\* handshake and an error frame, in this order.
C21_Witness ==
    \E s \in Sessions :
        /\ Len(sent[s]) >= 3
        /\ sent[s][1].frame = GATEWAY_INIT
        /\ sent[s][2].frame = GATEWAY_PING
        /\ sent[s][3].frame.type = "error"

\* The step handles a listen frame of session f that names user u, and the
\* handler calls f.listenAlong(h) for the session h of u.
ListensAlong(f, h, u) ==
    /\ rx'[f] = rx[f] + 1
    /\ client[f].hasInitialized
    /\ h \in Range(getUserById(Heap, u))
    /\ HandleMessage(f, ListenTo(u), h, SyncBudget)

\* A sync frame with seek = true that carries the playback state of session h.
SeekTo(h) ==
    [type |-> "sync", track |-> client[h].listeningTo,
     progress |-> client[h].progress, paused |-> client[h].paused, seek |-> TRUE]

\* C22: listenAlong(follower, host) sends exactly one sync frame, to the
\* follower only, with seek = true and the host's track, progress and paused
\* at the moment of the call, and sends nothing to any other session.
C22_ListenAlongSyncs ==
    [][\A f, h \in Sessions : \A u \in UserIds :
          ListensAlong(f, h, u) =>
              /\ sent'[f] = Append(sent[f], [frame |-> SeekTo(h), sock |-> sock[f]])
              /\ \A t \in Sessions \ {f} : sent'[t] = sent[t]]_vars

\* C22's case: a session listens along with a host that was playing a track
\* when the listen frame came: it has been sent one sync frame with that track
\* and seek = true, and the host has been sent no frame with it.
C22_Witness ==
    \E f, h \in Sessions :
        /\ f # h
        /\ client[f].listeningWith = h
        /\ client[h].listeningTo \in Tracks
        /\ client[h].listeningAlong = {f}
        /\ Len(sent[f]) = 3
        /\ sent[f][3].frame = SeekTo(h)
        /\ \A i \in 1 .. Len(sent[h]) : sent[h][i].frame # SeekTo(h)

\* The step handles a player frame of session h: the handler takes over the
\* playback state of the frame and calls h.updateListeners().
Plays(h, data) ==
    /\ rx'[h] = rx[h] + 1
    /\ client[h].hasInitialized
    /\ HandleMessage(h, data, NoClient, SyncBudget)

\* C23: updateListeners(host) sends exactly one sync frame with seek = true
\* to every session in host.listeningAlong, with the host's own current track,
\* progress and paused, and no frame to any other session.
C23_ListenersSynced ==
    [][\A h \in Sessions : \A data \in PlayerFrames :
          Plays(h, data) =>
              \A t \in Sessions :
                  sent'[t] =
                      IF t \in client[h].listeningAlong
                      THEN Append(sent[t],
                                  [frame |-> [type |-> "sync", track |-> data.track,
                                              progress |-> data.progress,
                                              paused |-> data.paused, seek |-> TRUE],
                                   sock |-> sock[t]])
                      ELSE sent[t]]_vars

\* The step handles a listen frame of session s that names no user: the
\* handler calls s.stopListeningAlong().
Stops(s) ==
    /\ rx'[s] = rx[s] + 1
    /\ client[s].hasInitialized
    /\ HandleMessage(s, ListenTo(Null), NoClient, SyncBudget)

\* The step is the close event of session h.
Closes(h) == sock[h] # "closed" /\ sock'[h] = "closed"

\* The sessions without a host.
Hostless == {s \in Sessions : client[s].listeningWith = NoClient}

\* C24: syncWith and stopListeningAlong on a session without a host send no
\* frame and change no state, also with hostInitiated = true, and
\* stopListeningAlong(false) on a session with a host sends no frame.  Stated
\* for the methods in every state, and for the calls that the handlers and
\* handleClose make: a stop-listening frame, the sync of a host's listeners
\* and the teardown of a closing host's listeners.
C24_NoHostNoOp ==
    /\ [](\A s \in Sessions :
            IF s \in Hostless
            THEN \A b \in BOOLEAN :
                    /\ stopListeningAlong(Heap, s, b) = Heap
                    /\ syncWith(Heap, s, b) = Heap
            ELSE stopListeningAlong(Heap, s, FALSE).sent = sent)
    /\ [][\A s \in Sessions :
            /\ Stops(s) =>
                  /\ sent' = sent
                  /\ s \in Hostless => client' = client
            /\ Closes(s) =>
                  \A f \in (client[s].listeningAlong \cap Hostless) \ {s} :
                      sent'[f] = sent[f] /\ client'[f].listeningWith = NoClient
            /\ \A data \in PlayerFrames :
                  Plays(s, data) =>
                      \A f \in (client[s].listeningAlong \cap Hostless) \ {s} :
                          sent'[f] = sent[f] /\ client'[f] = client[f]]_vars

\* C24's case: a host has closed while a session without a host was in its
\* listeningAlong, and that session, which had stopped listening along with
\* another host, has been sent no null sync frame.
C24_Witness ==
    \E f, h \in Sessions :
        /\ f # h
        /\ closeTask[h] = "done"
        /\ f \in client[h].listeningAlong
        /\ client[f].listeningWith = NoClient
        /\ Len(dispatched[f]) >= 3
        /\ \A i \in 1 .. Len(sent[f]) : sent[f][i].frame # NullSync

\* C25: an OnlineUser entry that exists is updated in place and never
\* replaced by a new record while it exists: no step puts another object
\* under the user id, and the step that ends the handshake of a further
\* session of the user leaves the entry's track and progress as they were.
C25_OnlineInPlace ==
    [][\A u \in UserIds :
          (Present(onlineUsers[u]) /\ Present(onlineUsers'[u])) =>
              /\ onlineUsers'[u].madeBy = onlineUsers[u].madeBy
              /\ \A s \in Sessions :
                    (initTask[s].pc = "online" /\ client[s].userId = u) =>
                        /\ onlineUsers'[u].listeningTo = onlineUsers[u].listeningTo
                        /\ onlineUsers'[u].progress = onlineUsers[u].progress]_vars

\* The step invokes updatePresence() of session s: the end of the handshake
\* of a user with a presence token, or the handling of a player frame.
UpdatesPresence(s) ==
    \/ /\ initTask[s].pc = "online" /\ initTask'[s].pc = "done"
       /\ presenceToken(client[s].userId)
    \/ /\ Len(dispatched'[s]) = Len(dispatched[s]) + 1
       /\ dispatched'[s][Len(dispatched'[s])].type = "player"

\* C26: an invocation of updatePresence at least 4000 ms after the session's
\* last recorded push time is not skipped: it records the time and goes on to
\* the User Directory; an earlier invocation is dropped, it records nothing
\* and leaves no call behind; and no other step starts a call for the session
\* or moves its recorded time.
C26_DueNotSkipped ==
    [][\A s \in Sessions :
          IF UpdatesPresence(s)
          THEN IF now - client[s].lastUpdate >= DebounceMs
               THEN /\ client'[s].lastUpdate = now
                    /\ Len(presenceTask'[s]) = Len(presenceTask[s]) + 1
               ELSE /\ client'[s].lastUpdate = client[s].lastUpdate
                    /\ presenceTask'[s] = presenceTask[s]
          ELSE /\ Len(presenceTask'[s]) <= Len(presenceTask[s])
               /\ sock[s] # "none" => client'[s].lastUpdate = client[s].lastUpdate]_vars

\* C26's case: of two player frames of a session one was dropped by the
\* debounce and one, handled 4000 ms or more after the connection was
\* accepted, went through to the Presence Publisher.
C26_Witness ==
    \E s \in Sessions :
        /\ Len(SelectSeq(dispatched[s], LAMBDA d : d.type = "player")) = 2
        /\ client[s].lastUpdate >= DebounceMs
        /\ presenceTask[s] = <<>>
        /\ Len(published[s]) = 1
        /\ published[s][1].by = "updatePresence"
        /\ published[s][1].at = client[s].lastUpdate

\* The step ends the close handling of session s.
Finishes(s) == closeTask[s] \in {"presence", "offline"} /\ closeTask'[s] = "done"

\* The sessions of user u other than s whose close handling has not ended.
OtherSessions(s, u) ==
    {t \in Sessions \ {s} : client[t].userId = u /\ closeTask[t] # "done"}

\* C27: the close handling of a session that was Active as user u removes
\* exactly that session from the User Index entry of u and keeps the others
\* in their order when u has other sessions, deletes the entry when it was the
\* last session of u, and leaves the entries of the other users as they were.
C27_ExactRemoval ==
    [][\A s \in ClosedActive :
          Finishes(s) =>
              LET u == client[s].userId IN
              /\ users'[u] =
                    IF OtherSessions(s, u) # {}
                    THEN SelectSeq(users[u], LAMBDA x : x # s)
                    ELSE <<>>
              /\ \A v \in UserIds \ {u} : users'[v] = users[v]]_vars

\* C28: a RecentUser entry for user u is created only by the close handling
\* of a session of u that has a current track, when u has no entry yet, the
\* new entry records that session's track, and no step overwrites an entry
\* that exists.
C28_RecentWrittenOnce ==
    [][\A u \in UserIds :
          IF Present(recentUsers[u])
          THEN Present(recentUsers'[u]) => recentUsers'[u] = recentUsers[u]
          ELSE Present(recentUsers'[u]) =>
                  \E s \in Sessions :
                      /\ closeTask[s] = "offline" /\ closeTask'[s] = "done"
                      /\ client[s].userId = u
                      /\ client[s].listeningTo # NoTrack
                      /\ recentUsers'[u].lastListeningTo = client[s].listeningTo]_vars

\* C29: the close of a session h leaves a session f that listens along with
\* a third session h2 as it was: f keeps listeningWith = h2, stays in the
\* listeningAlong of h2 and is sent no frame (stated for the runs in which
\* every handler ran on an Active session).
C29_OtherGroupsUntouched ==
    [][\A h \in Sessions :
          (C1_NoDispatchBeforeActive /\ Closes(h)) =>
              \A f \in Sessions \ {h} :
                  LET h2 == client[f].listeningWith IN
                  (h2 # NoClient /\ h2 # h /\ h2 # f) =>
                      /\ client'[f].listeningWith = h2
                      /\ f \in client'[h2].listeningAlong
                      /\ sent'[f] = sent[f]]_vars

=============================================================================
